---------------------------- MODULE Spec2Model ----------------------------
(***************************************************************************)
(* Model of homework.py: a bot that polls the homework-review API and      *)
(* relays status changes and failures to one Telegram chat.                *)
(*                                                                         *)
(* A Python str is modelled as a Text: a sequence of string pieces, with   *)
(* '' being << >> and concatenation being \o.  The Russian literals of the *)
(* program are rendered in English, one distinct text per literal.         *)
(* A Python exception is a record [type, args]; a dict is a record         *)
(* [keys, ...] whose "keys" field is the set of keys that are present.     *)
(***************************************************************************)
EXTENDS Integers, Sequences, FiniteSets, TLC

VARIABLES
    env,                \* the three configuration values read at import
    pc,                 \* position of main: startup, request, finally, exited, crashed
    current_timestamp,  \* main's cursor
    last_error,         \* main's last notified error message
    pending,            \* exception propagating out of the try statement
    clock,              \* wall-clock time, in seconds
    cycle,              \* what the iteration in progress did (NoCycle between two)
    prev,               \* summary of the last finished iteration
    ncycles,            \* number of iterations started
    nsleeps,            \* number of time.sleep calls made
    startlog,           \* log lines written before the loop
    delivered_error     \* text of the last error notification the chat received

vars == <<env, pc, current_timestamp, last_error, pending, clock, cycle,
          prev, ncycles, nsleeps, startlog, delivered_error>>

---------------------------------------------------------------------------
\* Bounds of the model.

MaxCycles == 3
MaxHomeworks == 2
StartTime == 1600

\* Values the environment supplies.
TokenValues == {"None", "", "token"}
Dates == {0, 1000}
BadStatusCodes == {404}
HomeworkNames == {"hw1", "hw2"}
StatusValues == {"approved", "reviewing", "rejected", "bogus"}
\* what bot.send_message does, and what `raise telegram.TelegramError`, a
\* class raised without its constructor argument, then produces
SendOutcomes == {"sent", "TelegramError", "TypeError"}

---------------------------------------------------------------------------
\* Program constants.

RETRY_TIME == 600
HTTP_OK == 200

HOMEWORK_STATUSES_keys == {"approved", "reviewing", "rejected"}

\* a table whose last entry repeats the first verdict
HOMEWORK_STATUSES_repeated ==
    [approved  |-> <<"Work checked: the reviewer liked everything. Hooray!">>,
     reviewing |-> <<"Work taken for review by the reviewer.">>,
     rejected  |-> <<"Work checked: the reviewer liked everything. Hooray!">>]

HOMEWORK_STATUSES ==
    [approved  |-> <<"Work checked: the reviewer liked everything. Hooray!">>,
     reviewing |-> <<"Work taken for review by the reviewer.">>,
     rejected  |-> <<"Work checked: the reviewer has remarks.">>]

\* A format template is a sequence of literal pieces and named fields.
Lit(s) == [field |-> FALSE, s |-> s]
Fld(n) == [field |-> TRUE, s |-> n]

SEND_MESSAGE_INFO == <<Lit("Bot sent message \""), Fld("message"), Lit("\".")>>
SEND_MESSAGE_ERROR ==
    <<Lit("Failure sending message \""), Fld("message"), Lit("\" to Telegram.")>>
API_STATUS_CODE_ERROR ==
    <<Lit("Program failure: API response code: "), Fld("code"), Lit(".")>>
API_ERROR == <<Lit("Failure requesting endpoint: "), Fld("ENDPOINT"), Lit(".")>>
KEY_ERROR ==
    <<Lit("Expected key "), Fld("key"), Lit(" is missing from the API response.")>>
RESPONSE_ERROR ==
    <<Lit("The API response contains an incorrect type: "), Fld("type"), Lit(".")>>
RESPONSE_DEBUG == <<"Homework status has not changed.">>
PARSE_STATUS_ERROR ==
    <<Lit("Status "), Fld("status"), Lit(" of work \""), Fld("name"),
      Lit("\" is undocumented.")>>
STATUS_VERDICT ==
    <<Lit("Status of work \""), Fld("name"), Lit("\" changed. "), Fld("verdict")>>
TOKEN_ERROR ==
    <<Lit("Required environment variable is missing: "), Fld("variable"), Lit(".")>>
COMMON_ERROR == <<Lit("Program failure: "), Fld("error"), Lit(".")>>
JSON_RESPOND_ERROR == <<"API response was not converted to json.">>
ENDPOINT == <<"https://practicum.yandex.ru/api/user_api/homework_statuses/">>

---------------------------------------------------------------------------
\* Python semantics the program relies on.

Range(s) == {s[i] : i \in 1..Len(s)}

NoExc == [type |-> "None", args |-> << >>]
Exc(type, args) == [type |-> type, args |-> args]

\* repr() of a str: double quotes when it holds a single quote and no double one
Repr(text) ==
    IF "'" \in Range(text) /\ "\"" \notin Range(text)
    THEN <<"\"">> \o text \o <<"\"">>
    ELSE <<"'">> \o text \o <<"'">>

\* str() of an exception: '' without arguments, the argument itself with
\* one, except KeyError, which gives the repr of its argument
Str(e) ==
    IF Len(e.args) = 0 THEN << >>
    ELSE IF e.type = "KeyError" THEN Repr(e.args[1])
    ELSE e.args[1]

\* str.format with keyword arguments kw (a function from field names to Text)
RECURSIVE Format(_, _)
Format(template, kw) ==
    IF template = << >> THEN << >>
    ELSE LET p == Head(template) IN
         (IF p.field THEN kw[p.s] ELSE <<p.s>>) \o Format(Tail(template), kw)

\* index of the first field of the template that kw does not supply, or 0
MissingField(template, kw) ==
    LET miss == {i \in 1..Len(template) :
                    template[i].field /\ template[i].s \notin DOMAIN kw}
    IN IF miss = {} THEN 0 ELSE CHOOSE i \in miss : \A j \in miss : i <= j

\* the KeyError str.format raises for that field
FormatKeyError(template, kw) ==
    Exc("KeyError", << <<template[MissingField(template, kw)].s>> >>)

\* `raise <str>`: only exceptions can be raised
RaiseStr == Exc("TypeError", << <<"exceptions must derive from BaseException">> >>)

\* a check that only looks for None
TruthyNotNone(v) == v # "None"

\* truth value of a configuration value: None and '' are false
Truthy(v) == v \notin {"None", ""}

LogLine(level, text) == [level |-> level, text |-> text]


---------------------------------------------------------------------------
\* Values of the API.

\* a homework record: a dict with the keys in "keys"
Homework(keys, name, status) ==
    [keys |-> keys, homework_name |-> name, status |-> status]

FullRecords ==
    {Homework({"homework_name", "status"}, n, s) :
        n \in HomeworkNames, s \in StatusValues}
PartialRecords ==
    {Homework({"homework_name"}, "hw1", ""), Homework({"status"}, "", "approved"),
     Homework({}, "", "")}
Records == FullRecords \cup PartialRecords
\* records that follow the first one in a list
TailRecords == {Homework({"homework_name", "status"}, "hw2", "rejected")}

HomeworkLists ==
    {<< >>} \cup
    {<<h>> \o t : h \in Records,
                  t \in UNION {[1..n -> TailRecords] : n \in 0..(MaxHomeworks - 1)}}

\* a JSON value found under "homeworks": a list, or something else
JList(v) == [t |-> "list", v |-> v]
JOther(t) == [t |-> t, v |-> << >>]
HomeworksValues == {JList(l) : l \in HomeworkLists} \cup {JOther("dict"), JOther("NoneType")}

\* a response body: a dict with the keys in "keys"
Body(keys, homeworks, current_date) ==
    [keys |-> keys, homeworks |-> homeworks, current_date |-> current_date]
NoBody == Body({}, JOther("NoneType"), 0)

Responses ==
    {Body({"homeworks", "current_date"}, h, d) : h \in HomeworksValues, d \in Dates}
    \cup {Body({"homeworks"}, h, 0) : h \in HomeworksValues}
    \cup {Body({"current_date"}, JOther("NoneType"), d) : d \in Dates}
    \cup {NoBody}

\* what requests.get and response.json() do in one iteration
Http(kind, status_code, json_ok, body) ==
    [kind |-> kind, status_code |-> status_code, json_ok |-> json_ok, body |-> body]
HttpOutcomes ==
    {Http("RequestException", 0, FALSE, NoBody)}
    \cup {Http("response", c, FALSE, NoBody) : c \in BadStatusCodes}
    \cup {Http("response", HTTP_OK, FALSE, NoBody)}
    \cup {Http("response", HTTP_OK, TRUE, b) : b \in Responses}

---------------------------------------------------------------------------
\* The functions of the program.  Each returns what it raised (NoExc when it
\* returned), the lines it logged and its value.

\* `raise telegram.TelegramError`: the class is raised without arguments
RaiseTelegramError(outcome) ==
    IF outcome = "TypeError"
    THEN Exc("TypeError",
             << <<"__init__() missing 1 required positional argument: 'message'">> >>)
    ELSE Exc("TelegramError", << >>)

\* a send_message that logs the failure and returns
send_message_swallows(outcome, message) ==
    IF outcome = "sent"
    THEN [raised |-> NoExc, delivered |-> TRUE,
          log |-> <<LogLine("INFO", Format(SEND_MESSAGE_INFO, [message |-> message]))>>]
    ELSE [raised |-> NoExc, delivered |-> FALSE,
          log |-> <<LogLine("ERROR", Format(SEND_MESSAGE_ERROR, [message |-> message]))>>]

send_message(outcome, message) ==
    IF outcome = "sent"
    THEN [raised |-> NoExc, delivered |-> TRUE,
          log |-> <<LogLine("INFO", Format(SEND_MESSAGE_INFO, [message |-> message]))>>]
    ELSE [raised |-> RaiseTelegramError(outcome), delivered |-> FALSE,
          log |-> <<LogLine("ERROR", Format(SEND_MESSAGE_ERROR, [message |-> message]))>>]

\* `current_timestamp or int(time.time())`
TimestampOrNow(cursor, now) ==
    IF cursor # 0 THEN cursor ELSE now

get_api_answer(cursor, now, http) ==
    LET timestamp == TimestampOrNow(cursor, now)
        base == [from_date |-> timestamp, value |-> NoBody, returned |-> FALSE,
                 status_code |-> http.status_code]
    IN  IF http.kind = "RequestException"
        THEN base @@
             [raised |-> Exc("RequestException",
                             <<Format(API_ERROR, [ENDPOINT |-> ENDPOINT])>>),
              log |-> <<LogLine("ERROR", Format(API_ERROR, [ENDPOINT |-> ENDPOINT]))>>]
        ELSE IF http.status_code # HTTP_OK
        THEN base @@
             [raised |-> RaiseStr,
              log |-> <<LogLine("ERROR",
                                Format(API_STATUS_CODE_ERROR,
                                       [code |-> <<ToString(http.status_code)>>]))>>]
        ELSE IF ~http.json_ok
        THEN base @@ [raised |-> RaiseStr, log |-> << >>]
        ELSE [from_date |-> timestamp, value |-> http.body, returned |-> TRUE,
              status_code |-> http.status_code, raised |-> NoExc, log |-> << >>]

check_response(response) ==
    IF "homeworks" \notin response.keys
    THEN LET key == Exc("KeyError", << <<"homeworks">> >>)
             text == Format(KEY_ERROR, [key |-> Str(key)])
         IN  [raised |-> Exc("KeyError", <<text>>),
              log |-> <<LogLine("ERROR", text)>>, value |-> << >>]
    ELSE LET homeworks == response.homeworks
             kw == << >>  \* format(type(homeworks)): no keyword argument
         IN  IF homeworks.t # "list"
             THEN IF MissingField(RESPONSE_ERROR, kw) # 0
                  THEN [raised |-> FormatKeyError(RESPONSE_ERROR, kw),
                        log |-> << >>, value |-> << >>]
                  ELSE [raised |-> Exc("TypeError", <<Format(RESPONSE_ERROR, kw)>>),
                        log |-> <<LogLine("ERROR", Format(RESPONSE_ERROR, kw))>>,
                        value |-> << >>]
             ELSE [raised |-> NoExc,
                   log |-> IF homeworks.v = << >>
                           THEN <<LogLine("DEBUG", RESPONSE_DEBUG)>> ELSE << >>,
                   value |-> homeworks.v]

\* the KeyError handler of parse_status, for the key that was missing
ParseKeyError(name) ==
    LET key == Exc("KeyError", << <<name>> >>)
        text == Format(KEY_ERROR, [key |-> Str(key)])
    IN  [raised |-> Exc("KeyError", <<text>>),
         log |-> <<LogLine("ERROR", text)>>, value |-> << >>]

parse_status(homework) ==
    IF "homework_name" \notin homework.keys THEN ParseKeyError("homework_name")
    ELSE IF "status" \notin homework.keys THEN ParseKeyError("status")
    ELSE LET homework_name == homework.homework_name
             homework_status == homework.status
         IN  IF homework_status \notin HOMEWORK_STATUSES_keys
             THEN [raised |-> RaiseStr,
                   log |-> <<LogLine("ERROR",
                                     Format(PARSE_STATUS_ERROR,
                                            [status |-> <<homework_status>>,
                                             name |-> <<homework_name>>]))>>,
                   value |-> << >>]
             ELSE [raised |-> NoExc, log |-> << >>,
                   value |-> Format(STATUS_VERDICT,
                                    [name |-> <<homework_name>>,
                                     verdict |-> HOMEWORK_STATUSES[homework_status]])]

\* the dict check_tokens builds, in its iteration order
Environment(e) ==
    <<[variable |-> "PRACTICUM_TOKEN", value |-> e.PRACTICUM_TOKEN],
      [variable |-> "TELEGRAM_TOKEN", value |-> e.TELEGRAM_TOKEN],
      [variable |-> "TELEGRAM_CHAT_ID", value |-> e.TELEGRAM_CHAT_ID]>>

check_tokens(e) ==
    LET environment == Environment(e)
        bad == {i \in 1..Len(environment) : ~Truthy(environment[i].value)}
    IN  IF bad = {} THEN [value |-> TRUE, log |-> << >>]
        ELSE LET i == CHOOSE k \in bad : \A j \in bad : k <= j
             IN  [value |-> FALSE,
                  log |-> <<LogLine("CRITICAL",
                                    Format(TOKEN_ERROR,
                                           [variable |-> <<environment[i].variable>>]))>>]

---------------------------------------------------------------------------
\* One iteration of main's loop.

\* an entry of the chat history: one call of bot.send_message
ChatEntry(kind, text, delivered) ==
    [kind |-> kind, text |-> text, delivered |-> delivered]

\* what the try body leaves behind: the response a of get_api_answer, the
\* homework list, the calls of bot.send_message, the exception and the log
TryResult(a, validated, homeworks, chat, raised, log) ==
    [from_date |-> a.from_date, returned |-> a.returned, response |-> a.value,
     status_code |-> a.status_code, validated |-> validated, homeworks |-> homeworks, chat |-> chat,
     raised |-> raised, log |-> log]

\* `send_message(bot, verdict)` has run, with result s
TrySent(a, c, p, s) ==
    TryResult(a, TRUE, c.value, <<ChatEntry("verdict", p.value, s.delivered)>>,
              s.raised, a.log \o c.log \o p.log \o s.log)

\* `verdict = parse_status(homeworks[0])` has run, with result p
TryParsed(a, c, p, verdict_send) ==
    IF p.raised # NoExc
    THEN TryResult(a, TRUE, c.value, << >>, p.raised, a.log \o c.log \o p.log)
    ELSE TrySent(a, c, p, send_message(verdict_send, p.value))

\* `homeworks = check_response(response)` has run, with result c
TryChecked(a, c, verdict_send) ==
    IF c.raised # NoExc
    THEN TryResult(a, FALSE, << >>, << >>, c.raised, a.log \o c.log)
    ELSE IF c.value = << >>
    THEN TryResult(a, TRUE, c.value, << >>, NoExc, a.log \o c.log)
    ELSE TryParsed(a, c, parse_status(c.value[1]), verdict_send)

\* `response = get_api_answer(current_timestamp)` has run, with result a
TryFetched(a, verdict_send) ==
    IF a.raised # NoExc
    THEN TryResult(a, FALSE, << >>, << >>, a.raised, a.log)
    ELSE TryChecked(a, check_response(a.value), verdict_send)

\* the try body
TryBody(cursor, now, http, verdict_send) ==
    TryFetched(get_api_answer(cursor, now, http), verdict_send)

\* a loop that notifies every failure
NotifyAlways(message, last) == TRUE

\* `if message != last_error`
NotifyNeeded(message, last) == message # last

\* an except clause that logs inside the `if`
ExceptClauseLogsWhenNotifying(error, last, error_send) ==
    LET message == Format(COMMON_ERROR, [error |-> Str(error)])
        logged == <<LogLine("ERROR", Format(COMMON_ERROR, [error |-> Str(error)]))>>
    IN  IF NotifyNeeded(message, last)
        THEN LET s == send_message(error_send, message) IN
             [message |-> message, log |-> logged \o s.log,
              chat |-> <<ChatEntry("error", message, s.delivered)>>,
              raised |-> s.raised,
              last_error |-> IF s.raised = NoExc THEN message ELSE last]
        ELSE [message |-> message, log |-> << >>, chat |-> << >>,
              raised |-> NoExc, last_error |-> last]

\* an except clause that remembers the message before sending it
ExceptClauseAssignsFirst(error, last, error_send) ==
    LET message == Format(COMMON_ERROR, [error |-> Str(error)])
        logged == <<LogLine("ERROR", Format(COMMON_ERROR, [error |-> Str(error)]))>>
    IN  IF NotifyNeeded(message, last)
        THEN LET s == send_message(error_send, message) IN
             [message |-> message, log |-> logged \o s.log,
              chat |-> <<ChatEntry("error", message, s.delivered)>>,
              raised |-> s.raised, last_error |-> message]
        ELSE [message |-> message, log |-> logged, chat |-> << >>,
              raised |-> NoExc, last_error |-> last]

\* the except clause
ExceptClause(error, last, error_send) ==
    LET message == Format(COMMON_ERROR, [error |-> Str(error)])
        logged == <<LogLine("ERROR", Format(COMMON_ERROR, [error |-> Str(error)]))>>
    IN  IF NotifyNeeded(message, last)
        THEN LET s == send_message(error_send, message) IN
             [message |-> message, log |-> logged \o s.log,
              chat |-> <<ChatEntry("error", message, s.delivered)>>,
              raised |-> s.raised,
              last_error |-> IF s.raised = NoExc THEN message ELSE last]
        ELSE [message |-> message, log |-> logged, chat |-> << >>,
              raised |-> NoExc, last_error |-> last]

\* the else clause
ElseClause(response, cursor) ==
    IF "current_date" \in response.keys
    THEN [raised |-> NoExc, current_timestamp |-> response.current_date]
    ELSE [raised |-> Exc("KeyError", << <<"current_date">> >>),
          current_timestamp |-> cursor]

\* what every iteration records, from the result t of the try body
IterationCommon(n, cursor, last, t) ==
    [n |-> n, cursor_before |-> cursor, last_error_before |-> last,
     from_date |-> t.from_date, returned |-> t.returned,
     status_code |-> t.status_code, response |-> t.response, validated |-> t.validated,
     homeworks |-> t.homeworks, slept |-> << >>]

\* a failed iteration that starts the cursor over
IterationFailedResetsCursor(n, cursor, last, t, x) ==
    IterationCommon(n, cursor, last, t) @@
    [outcome |-> "failed", error |-> t.raised, message |-> x.message,
     chat |-> t.chat \o x.chat, log |-> t.log \o x.log,
     cursor_after |-> 0, last_error_after |-> x.last_error,
     pending |-> x.raised]

\* an iteration whose try body raised; x is the result of the except clause
IterationFailed(n, cursor, last, t, x) ==
    IterationCommon(n, cursor, last, t) @@
    [outcome |-> "failed", error |-> t.raised, message |-> x.message,
     chat |-> t.chat \o x.chat, log |-> t.log \o x.log,
     cursor_after |-> cursor, last_error_after |-> x.last_error,
     pending |-> x.raised]

\* a passed iteration that forgets the last error message
IterationPassedClearsLastError(n, cursor, last, t, e) ==
    IterationCommon(n, cursor, last, t) @@
    [outcome |-> IF e.raised = NoExc THEN "ok" ELSE "else_raised",
     error |-> NoExc, message |-> << >>, chat |-> t.chat, log |-> t.log,
     cursor_after |-> e.current_timestamp, last_error_after |-> << >>,
     pending |-> e.raised]

\* an iteration whose try body returned; e is the result of the else clause
IterationPassed(n, cursor, last, t, e) ==
    IterationCommon(n, cursor, last, t) @@
    [outcome |-> IF e.raised = NoExc THEN "ok" ELSE "else_raised",
     error |-> NoExc, message |-> << >>, chat |-> t.chat, log |-> t.log,
     cursor_after |-> e.current_timestamp, last_error_after |-> last,
     pending |-> e.raised]

\* a try statement whose except clause also handles what the else clause raises
IterationFromElseCaught(n, cursor, last, t, error_send) ==
    IF t.raised # NoExc
    THEN IterationFailed(n, cursor, last, t,
                         ExceptClause(t.raised, last, error_send))
    ELSE IF ElseClause(t.response, cursor).raised = NoExc
    THEN IterationPassed(n, cursor, last, t, ElseClause(t.response, cursor))
    ELSE IterationFailed(n, cursor, last,
                         [t EXCEPT !.raised = ElseClause(t.response, cursor).raised],
                         ExceptClause(ElseClause(t.response, cursor).raised,
                                      last, error_send))

\* the except or the else clause, after the try body with result t
IterationFrom(n, cursor, last, t, error_send) ==
    IF t.raised # NoExc
    THEN IterationFailed(n, cursor, last, t,
                         ExceptClause(t.raised, last, error_send))
    ELSE IterationPassed(n, cursor, last, t, ElseClause(t.response, cursor))

\* the try statement without its finally clause
Iteration(n, cursor, last, now, http, verdict_send, error_send) ==
    IterationFrom(n, cursor, last, TryBody(cursor, now, http, verdict_send),
                  error_send)

NoCycle ==
    [n |-> 0, cursor_before |-> 0, last_error_before |-> << >>, from_date |-> 0,
     returned |-> FALSE, status_code |-> 0, response |-> NoBody,
     validated |-> FALSE, homeworks |-> << >>, slept |-> << >>, outcome |-> "none", error |-> NoExc,
     message |-> << >>, chat |-> << >>, log |-> << >>, cursor_after |-> 0,
     last_error_after |-> << >>, pending |-> NoExc]

ErrorEntries(chat) == {i \in 1..Len(chat) : chat[i].kind = "error"}
VerdictEntries(chat) == {i \in 1..Len(chat) : chat[i].kind = "verdict"}
Delivered(chat) == {i \in 1..Len(chat) : chat[i].delivered}

\* the text of the last error notification delivered in chat, or before it
LastDeliveredError(chat, before) ==
    LET got == ErrorEntries(chat) \cap Delivered(chat)
    IN  IF got = {} THEN before
        ELSE chat[CHOOSE i \in got : \A j \in got : j <= i].text

\* what is remembered of an iteration once it has finished
Summary(c) ==
    [n |-> c.n, outcome |-> c.outcome, message |-> c.message,
     errors_sent |-> Cardinality(ErrorEntries(c.chat)),
     was_new |-> c.outcome = "failed" /\ c.message # c.last_error_before,
     current_date |-> IF c.outcome = "ok" THEN c.response.current_date ELSE 0,
     error_send_failed |->
        \E i \in ErrorEntries(c.chat) : ~c.chat[i].delivered,
     slept |-> c.slept]

---------------------------------------------------------------------------
\* The state machine.

Init ==
    /\ env \in [PRACTICUM_TOKEN : TokenValues, TELEGRAM_TOKEN : TokenValues,
                TELEGRAM_CHAT_ID : TokenValues]
    /\ pc = "startup"
    /\ current_timestamp = 0
    /\ last_error = << >>
    /\ pending = NoExc
    /\ clock = StartTime
    /\ cycle = NoCycle
    /\ prev = Summary(NoCycle)
    /\ ncycles = 0
    /\ nsleeps = 0
    /\ startlog = << >>
    /\ delivered_error = << >>

\* main up to the loop
Startup ==
    /\ pc = "startup"
    /\ LET t == check_tokens(env) IN
          /\ startlog' = t.log
          /\ IF ~t.value
             THEN /\ pc' = "exited"
                  /\ UNCHANGED <<current_timestamp, last_error>>
             ELSE /\ pc' = "request"
                  /\ current_timestamp' = clock
                  /\ last_error' = << >>
    /\ UNCHANGED <<env, pending, clock, cycle, prev, ncycles, nsleeps,
                   delivered_error>>

\* the try, except and else clauses of one iteration
Cycle ==
    /\ pc = "request"
    /\ ncycles < MaxCycles
    /\ \E http \in HttpOutcomes, verdict_send \in SendOutcomes,
          error_send \in SendOutcomes :
          cycle' = Iteration(ncycles + 1, current_timestamp, last_error, clock,
                             http, verdict_send, error_send)
    /\ current_timestamp' = cycle'.cursor_after
    /\ last_error' = cycle'.last_error_after
    /\ pending' = cycle'.pending
    /\ delivered_error' = LastDeliveredError(cycle'.chat, delivered_error)
    /\ ncycles' = ncycles + 1
    /\ pc' = "finally"
    /\ UNCHANGED <<env, clock, prev, nsleeps, startlog>>

\* a loop that sleeps in its else clause only
SleepOnlyAfterSuccess ==
    /\ pc = "finally"
    /\ clock' = IF cycle.outcome = "ok" THEN clock + RETRY_TIME ELSE clock
    /\ nsleeps' = IF cycle.outcome = "ok" THEN nsleeps + 1 ELSE nsleeps
    /\ prev' = Summary([cycle EXCEPT !.slept =
                  IF cycle.outcome = "ok" THEN @ \o <<RETRY_TIME>> ELSE @])
    /\ cycle' = NoCycle
    /\ pc' = IF pending = NoExc THEN "request" ELSE "crashed"
    /\ UNCHANGED <<env, current_timestamp, last_error, pending, ncycles,
                   startlog, delivered_error>>

\* the finally clause, then the loop or the propagating exception
Sleep ==
    /\ pc = "finally"
    /\ clock' = clock + RETRY_TIME
    /\ nsleeps' = nsleeps + 1
    /\ prev' = Summary([cycle EXCEPT !.slept = @ \o <<RETRY_TIME>>])
    /\ cycle' = NoCycle
    /\ pc' = IF pending = NoExc THEN "request" ELSE "crashed"
    /\ UNCHANGED <<env, current_timestamp, last_error, pending, ncycles,
                   startlog, delivered_error>>

Next == Startup \/ Cycle \/ Sleep

Spec == Init /\ [][Next]_vars

---------------------------------------------------------------------------
\* Properties.

\* the iteration in progress and the one before it both took the except
\* clause, with the same message
TwoIdenticalFailures ==
    /\ pc = "finally"
    /\ prev.n = cycle.n - 1
    /\ prev.outcome = "failed"
    /\ cycle.outcome = "failed"
    /\ cycle.message = prev.message

\* C1 as stated: two consecutive iterations that fail with the identical
\* message send exactly one error notification between them.
C1_ExactlyOneNotification ==
    TwoIdenticalFailures =>
        prev.errors_sent + Cardinality(ErrorEntries(cycle.chat)) = 1

\* C1 amended: of two consecutive iterations that fail with the identical
\* message the second sends no error notification, and the first sends one
\* exactly when its message differs from last_error, so at most one is sent.
C1_RepeatSuppressed ==
    TwoIdenticalFailures =>
        /\ ErrorEntries(cycle.chat) = {}
        /\ prev.errors_sent = IF prev.was_new THEN 1 ELSE 0
        /\ last_error = cycle.message

C1_Witness ==
    /\ TwoIdenticalFailures
    /\ prev.errors_sent = 1
    /\ cycle.chat = << >>

\* C2 as stated: when the send of an error notification fails, the failure
\* is logged and swallowed: nothing escapes the try statement, and after the
\* sleep main is at the next request.
C2_ErrorSendFailureSwallowed ==
    /\ (\E i \in ErrorEntries(cycle.chat) : ~cycle.chat[i].delivered) =>
            /\ pending = NoExc
            /\ \E j \in 1..Len(cycle.log) : cycle.log[j].level = "ERROR"
    /\ prev.error_send_failed => pc = "request"

\* C3 as stated: the from_date of the request that follows a successful
\* iteration is the current_date of that iteration's response.
C3_CursorIsCurrentDate ==
    (pc = "finally" /\ prev.n = cycle.n - 1 /\ prev.outcome = "ok") =>
        cycle.from_date = prev.current_date

\* C4 as stated: once the token check has passed main never terminates.
C4_NeverTerminates ==
    check_tokens(env).value => pc \notin {"exited", "crashed"}

\* C5 as stated: when the validated response holds several records, each of
\* them gets its verdict notification.
C5_EveryRecordNotified ==
    (pc = "finally" /\ cycle.outcome = "ok" /\ Len(cycle.homeworks) > 1) =>
        /\ Len(cycle.chat) = Len(cycle.homeworks)
        /\ \A i \in 1..Len(cycle.homeworks) :
              /\ cycle.chat[i].kind = "verdict"
              /\ cycle.chat[i].text = parse_status(cycle.homeworks[i]).value

\* the first record of the validated list has a name and a status
FirstRecordComplete ==
    /\ pc = "finally"
    /\ cycle.validated
    /\ cycle.homeworks # << >>
    /\ cycle.homeworks[1].keys = {"homework_name", "status"}

\* C6 as stated: a record with a status outside approved, reviewing,
\* rejected makes parse_status fail with an error that tells the unknown
\* status, and sends no verdict.
C6_UnknownStatusError ==
    (FirstRecordComplete
        /\ cycle.homeworks[1].status \notin {"approved", "reviewing", "rejected"}) =>
        /\ cycle.outcome = "failed"
        /\ cycle.error.args =
              << <<"Status ", cycle.homeworks[1].status, " of work \"",
                   cycle.homeworks[1].homework_name, "\" is undocumented.">> >>
        /\ VerdictEntries(cycle.chat) = {}

\* C7 as stated: a "homeworks" value that is present and is not a list makes
\* check_response fail with a type error.
C7_TypeMismatchError ==
    (pc = "finally" /\ cycle.returned /\ "homeworks" \in cycle.response.keys
        /\ cycle.response.homeworks.t # "list") =>
        /\ cycle.outcome = "failed"
        /\ cycle.error.type = "TypeError"

\* C8 as stated: an empty homework list sends nothing and the iteration ends
\* without an error, going on to the sleep and the next request.
C8_EmptyListQuiet ==
    (pc = "finally" /\ cycle.validated /\ cycle.homeworks = << >>) =>
        /\ cycle.chat = << >>
        /\ cycle.outcome = "ok"
        /\ pending = NoExc

\* some required configuration value is absent or empty
SomeTokenMissing ==
    \/ env.PRACTICUM_TOKEN \in {"None", ""}
    \/ env.TELEGRAM_TOKEN \in {"None", ""}
    \/ env.TELEGRAM_CHAT_ID \in {"None", ""}

\* the first of the three values, in the order checked, that is absent or empty
FirstMissingVariable ==
    IF env.PRACTICUM_TOKEN \in {"None", ""} THEN "PRACTICUM_TOKEN"
    ELSE IF env.TELEGRAM_TOKEN \in {"None", ""} THEN "TELEGRAM_TOKEN"
    ELSE "TELEGRAM_CHAT_ID"

\* C9: with a required configuration value absent or empty, main logs one
\* critical line and exits before the loop: no request, no notification and
\* no sleep is ever made.
C9_MissingTokenStopsStartup ==
    SomeTokenMissing =>
        /\ pc \in {"startup", "exited"}
        /\ ncycles = 0 /\ nsleeps = 0 /\ cycle = NoCycle /\ prev.n = 0
        /\ clock = StartTime
        /\ pc = "exited" =>
              /\ Len(startlog) = 1
              /\ startlog[1].level = "CRITICAL"
              /\ startlog[1].text =
                    <<"Required environment variable is missing: ",
                      FirstMissingVariable, ".">>

C9_Witness ==
    /\ pc = "exited"
    /\ env.PRACTICUM_TOKEN = "token"
    /\ env.TELEGRAM_TOKEN = "token"
    /\ env.TELEGRAM_CHAT_ID = ""

\* the verdict text the program documents for a status
CanonicalVerdict(status) ==
    CASE status = "approved" ->
            "Work checked: the reviewer liked everything. Hooray!"
      [] status = "reviewing" -> "Work taken for review by the reviewer."
      [] status = "rejected" -> "Work checked: the reviewer has remarks."

\* C10: for a record with a name and a status among approved, reviewing,
\* rejected, parse_status returns the template text with that name and the
\* verdict of that status, and that text is what is sent.
C10_VerdictText ==
    (FirstRecordComplete
        /\ cycle.homeworks[1].status \in {"approved", "reviewing", "rejected"}) =>
        /\ Len(cycle.chat) >= 1
        /\ cycle.chat[1].kind = "verdict"
        /\ cycle.chat[1].text =
              <<"Status of work \"", cycle.homeworks[1].homework_name,
                "\" changed. ", CanonicalVerdict(cycle.homeworks[1].status)>>

C10_Witness ==
    /\ FirstRecordComplete
    /\ cycle.homeworks[1].status = "rejected"
    /\ cycle.homeworks[1].homework_name = "hw2"
    /\ cycle.chat[1].delivered

\* C11 as stated: when the API answers with a status code other than 200,
\* the error that reaches main's except clause carries that status code.
C11_StatusErrorCarriesCode ==
    (pc = "finally" /\ cycle.status_code \notin {0, 200}) =>
        /\ cycle.outcome = "failed"
        /\ cycle.error.args =
              << <<"Program failure: API response code: ",
                   ToString(cycle.status_code), ".">> >>

\* C12: the cursor an iteration passes to get_api_answer is the one the
\* iteration before left; an iteration changes it only when its try body
\* raised nothing, and leaves it alone when an exception was raised in the
\* fetch, the validation, the formatting or the notification; the sleep
\* leaves it alone too.
C12_CursorChangesOnlyOnSuccess ==
    [][/\ (pc = "request" /\ pc' = "finally") =>
            /\ cycle'.cursor_before = current_timestamp
            /\ current_timestamp' # current_timestamp =>
                  /\ cycle'.validated
                  /\ cycle'.error = NoExc
                  /\ cycle'.outcome = "ok"
            /\ cycle'.outcome # "ok" => current_timestamp' = current_timestamp
       /\ pc = "finally" => current_timestamp' = current_timestamp]_vars

C12_Witness ==
    /\ pc = "finally"
    /\ cycle.n = 2
    /\ cycle.outcome = "failed"
    /\ cycle.cursor_before = 1000
    /\ current_timestamp = 1000
    /\ \E i \in VerdictEntries(cycle.chat) : ~cycle.chat[i].delivered

\* C13: every iteration ends with one sleep of 600 seconds, whatever its
\* outcome, so each request but the first comes after exactly one sleep
\* since the request before it.
C13_OneSleepBetweenRequests ==
    /\ pc = "request" => nsleeps = ncycles
    /\ pc = "finally" => nsleeps = ncycles - 1 /\ cycle.slept = << >>
    /\ pc = "crashed" => nsleeps = ncycles
    /\ prev.n > 0 => prev.slept = <<600>>
    /\ clock = StartTime + 600 * nsleeps

\* a request is about to follow an iteration whose error was suppressed
C13_Witness ==
    /\ pc = "request"
    /\ prev.n = 2
    /\ prev.outcome = "failed"
    /\ prev.errors_sent = 0
    /\ nsleeps = 2

\* the send of the verdict failed in the iteration in progress
VerdictSendFailed ==
    /\ pc = "finally"
    /\ \E i \in VerdictEntries(cycle.chat) : ~cycle.chat[i].delivered

\* C14: when the send of a verdict fails, send_message logs the message
\* that failed and raises; the iteration takes the except clause, so the
\* cursor stays where it was and the error notification is sent exactly
\* when its message differs from last_error.
C14_VerdictSendFailure ==
    VerdictSendFailed =>
        /\ cycle.outcome = "failed"
        /\ cycle.error.type \in {"TelegramError", "TypeError"}
        /\ \E j \in 1..Len(cycle.log) :
              /\ cycle.log[j].level = "ERROR"
              /\ cycle.log[j].text =
                    <<"Failure sending message \"">> \o cycle.chat[1].text
                        \o <<"\" to Telegram.">>
        /\ current_timestamp = cycle.cursor_before
        /\ cycle.message = <<"Program failure: ">> \o Str(cycle.error) \o <<".">>
        /\ ErrorEntries(cycle.chat) # {} <=> cycle.message # cycle.last_error_before
        /\ \A i \in ErrorEntries(cycle.chat) : cycle.chat[i].text = cycle.message

\* a failed verdict send whose error notification is suppressed
C14_Witness ==
    /\ VerdictSendFailed
    /\ ErrorEntries(cycle.chat) = {}
    /\ cycle.cursor_before = 1000

\* C15: every iteration that fails writes an error-level log line with its
\* failure message, also when the chat notification is suppressed.
C15_EveryFailureLogged ==
    (pc = "finally" /\ cycle.outcome = "failed") =>
        \E j \in 1..Len(cycle.log) :
            /\ cycle.log[j].level = "ERROR"
            /\ cycle.log[j].text =
                  <<"Program failure: ">> \o Str(cycle.error) \o <<".">>

\* a failed iteration whose notification is suppressed
C15_Witness ==
    /\ pc = "finally"
    /\ cycle.outcome = "failed"
    /\ cycle.message = cycle.last_error_before
    /\ cycle.chat = << >>

\* C16: last_error is the empty string while no error notification has been
\* delivered, and the text of the last delivered one afterwards; a send
\* that raised leaves it as it was.
C16_LastErrorIsLastDelivered ==
    /\ last_error = delivered_error
    /\ (\E i \in ErrorEntries(cycle.chat) : ~cycle.chat[i].delivered) =>
            last_error = cycle.last_error_before

\* an error notification failed after an earlier, different one was delivered
C16_Witness ==
    /\ pc = "finally"
    /\ last_error # << >>
    /\ cycle.message # last_error
    /\ \E i \in ErrorEntries(cycle.chat) : ~cycle.chat[i].delivered

\* C17: a successful iteration leaves last_error as it was, and an
\* iteration that fails with the message of the last delivered error
\* notification, whatever successful iterations lie between, sends nothing.
C17_SuccessKeepsLastError ==
    [][(pc = "request" /\ pc' = "finally") =>
         /\ cycle'.outcome = "ok" => last_error' = last_error
         /\ (cycle'.outcome = "failed" /\ cycle'.message = delivered_error) =>
                ErrorEntries(cycle'.chat) = {}]_vars

\* the third iteration repeats the failure of the first after a successful second
C17_Witness ==
    /\ pc = "finally"
    /\ cycle.n = 3
    /\ prev.outcome = "ok"
    /\ cycle.outcome = "failed"
    /\ cycle.message = delivered_error
    /\ cycle.chat = << >>

\* C18 as stated: whenever a verdict notification was delivered, the cursor
\* becomes the current_date of that response and the loop goes on, also for
\* a response without a current_date.
C18_DeliveredVerdictAdvances ==
    (pc = "finally" /\ VerdictEntries(cycle.chat) \cap Delivered(cycle.chat) # {}) =>
        /\ cycle.outcome = "ok"
        /\ pending = NoExc
        /\ "current_date" \in cycle.response.keys
        /\ current_timestamp = cycle.response.current_date

\* C19: in one iteration bot.send_message is attempted at most twice, a
\* verdict first and an error notification second, the second only when an
\* exception was caught; at most one message is delivered, and no error
\* notification follows a delivered verdict.
C19_AtMostOneDelivered ==
    /\ Len(cycle.chat) <= 2
    /\ Cardinality(Delivered(cycle.chat)) <= 1
    /\ Cardinality(VerdictEntries(cycle.chat)) <= 1
    /\ Cardinality(ErrorEntries(cycle.chat)) <= 1
    /\ ErrorEntries(cycle.chat) # {} => cycle.outcome = "failed"
    /\ Len(cycle.chat) = 2 =>
          /\ cycle.chat[1].kind = "verdict"
          /\ ~cycle.chat[1].delivered
          /\ cycle.chat[2].kind = "error"
    /\ VerdictEntries(cycle.chat) \cap Delivered(cycle.chat) # {} =>
          ErrorEntries(cycle.chat) = {}

\* the verdict could not be sent and the error notification about it arrived
C19_Witness ==
    /\ pc = "finally"
    /\ Len(cycle.chat) = 2
    /\ ~cycle.chat[1].delivered
    /\ cycle.chat[2].delivered

=============================================================================
